---- MODULE Spec2Model ----
(***************************************************************************)
(* DISC assessment: the forced-choice scoring module (scoring.js, kept as  *)
(* src/unnamed/part_000), the Likert scoring of                            *)
(* src/public/assets/js/disc.js, and the two pages that use them           *)
(* (src/public/js/form.js with questions.js, and disc.js).                 *)
(*                                                                         *)
(* The scoring functions are pure.  Spec, SpecValidate, SpecLikert and     *)
(* SpecCalls draw their inputs in the initial state and have one action    *)
(* per exported function, which applies it and records what it returned.   *)
(* SpecPages has one action per event handler and timer or fetch callback  *)
(* of the page that is open; SpecDiscFair is the Likert page with every    *)
(* pending fetch settling eventually.  SpecWebhook is one invocation of    *)
(* the webhook relay function.                                             *)
(***************************************************************************)
EXTENDS Integers, Sequences, FiniteSets, TLC

VARIABLES
    pc,           \* "ready" before a call, then the name of the call that ran
    items,        \* forced-choice schema: sequence of groups [id, items]
    responses,    \* forced-choice responses: function groupId -> [most, least]
    totalGroups,  \* second argument of validateResponses
    result,       \* what calculateScores returned
    raised,       \* TRUE iff calculateScores threw / returned an error value
    validation,   \* what validateResponses returned
    form,         \* Likert form: question number -> checked radio value
    likert,       \* what disc.js calculateScores returned
    ranked,       \* what rankStyles returned to disc.js calculateScores
    allocated,    \* number of scores objects created so far
    returned,     \* identities of the scores objects returned, in call order
    description,  \* what getTypeDescription returned
    radios,       \* forced-choice page: group id -> checked radio values
    submitDisabled, \* #submitBtn.disabled
    loading,      \* #submitBtn shows the "Submitting..." spinner
    validationError, \* #validationError: Null when hidden, else the count shown
    hideTimers,   \* pending 5 s timers of showValidationError
    highlighted,  \* highlighted group id -> kind of its error message
    hidden,       \* values of the hidden score fields
    summary,      \* #resultsSummary: what the preview shows
    progress,     \* #progressBar.value
    timers,       \* number of pending 100 ms submit timers
    submitted,    \* number of native form.submit() calls so far
    requests,     \* Likert page: the POSTs started, in order, with their state
    rendered,     \* Likert page: what the #results section shows
    event,        \* webhook relay: the event of the invocation [httpMethod, body]
    env,          \* process.env.WEBHOOK_URL of the function
    parsed,       \* number of JSON.parse calls of the invocation
    outbox,       \* the requests the invocation sent to the external webhook
    fetched,      \* how the fetch of the invocation settled
    reply         \* what the invocation returned or threw

\* the variables of the repeated-call specification
callVars == <<allocated, returned, description>>

\* the variables of the forced-choice page
formVars == <<radios, submitDisabled, loading, validationError, hideTimers,
              highlighted, hidden, summary, progress, timers, submitted>>

\* the variables of the Likert page (it also has hidden fields, a progress
\* display and native submits)
discVars == <<requests, rendered>>

\* the variables of the webhook relay function
hookVars == <<event, env, parsed, outbox, fetched, reply>>

vars == <<pc, items, responses, totalGroups, result, raised, validation, form,
          likert, ranked, callVars, formVars, discVars, hookVars>>

CallsIdle == allocated = 0 /\ returned = <<>> /\ description = <<>>

\* no Likert page is open
DiscIdle == requests = <<>> /\ rendered = <<>>

\* the relay function is not invoked
HookIdle ==
    /\ event = [httpMethod |-> "", body |-> ""]
    /\ env = ""
    /\ parsed = 0
    /\ outbox = <<>>
    /\ fetched = [kind |-> "none"]
    /\ reply = [kind |-> "none"]

\* no forced-choice page is open
FormIdle ==
    /\ radios = <<>>
    /\ submitDisabled = TRUE
    /\ loading = FALSE
    /\ validationError = "<null>"
    /\ hideTimers = 0
    /\ highlighted = <<>>
    /\ hidden = <<>>
    /\ summary = <<>>
    /\ progress = 0
    /\ timers = 0
    /\ submitted = 0

-----------------------------------------------------------------------------
(* Bounds of the model *)

MaxGroups == 2        \* longest schema / largest group id drawn
MaxEdits == 2         \* Likert answers that differ from their block's common answer
MaxCalls == 2         \* calls of calculateScores in one run of the repeated-call specification
MaxOpen == 1          \* groups of the page the user still answers; the others are filled in
MaxPending == 2       \* submit timers scheduled, and error timers pending, on one page

-----------------------------------------------------------------------------
(* Data *)

\* part_000:14 -- key order of the scores object, which is the canonical order
Dims == <<"D", "I", "S", "C">>
DimSet == {"D", "I", "S", "C"}

\* JS null, the value getCurrentResponses stores for an unchecked radio
Null == "<null>"

\* JS truthiness of a most/least value: null and "" are falsy
Falsy(v) == v = Null \/ v = ""

\* part_000:221-227 -- the group of the module's own tests
StdItems ==
    << [label |-> "Decisive",     dim |-> "D"],
       [label |-> "Enthusiastic", dim |-> "I"],
       [label |-> "Patient",      dim |-> "S"],
       [label |-> "Precise",      dim |-> "C"] >>

\* a second group binding the same adjectives to other dimensions
AltItems ==
    << [label |-> "Patient",      dim |-> "D"],
       [label |-> "Precise",      dim |-> "I"],
       [label |-> "Decisive",     dim |-> "S"],
       [label |-> "Enthusiastic", dim |-> "C"] >>

GroupItemsBank == {StdItems, AltItems}

SchemaLabels == {"Decisive", "Enthusiastic", "Patient", "Precise"}

\* what a response may hold: nothing, a schema label, or a label of no group
AnswerValues == {Null, "Unknown"} \cup SchemaLabels

\* schemas: 1..MaxGroups groups, ids 1..n, each with one of the bank's bindings
Schemas ==
    UNION { { [g \in 1..n |-> [id |-> g, items |-> pick[g]]] :
                pick \in [1..n -> GroupItemsBank] } : n \in 1..MaxGroups }

ResponseRecords(values) == [most : values, least : values]

\* response objects: any subset of the ids as keys
ResponseMaps(values) ==
    UNION { [ids -> ResponseRecords(values)] : ids \in SUBSET (1..MaxGroups) }

\* variant: every score starts at 1
ZeroScores_One == [d \in DimSet |-> 1]

\* part_000:14 -- { D: 0, I: 0, S: 0, C: 0 }
ZeroScores == [d \in DimSet |-> 0]

NoResult ==
    [scores |-> ZeroScores, primaryType |-> "", typeOrder |-> "", debug |-> ""]

NoValidation == [isValid |-> FALSE, missingGroups |-> <<>>]

-----------------------------------------------------------------------------
(* scoring.js (src/unnamed/part_000) *)

\* Array.prototype.find on group.items: index of the first item whose label
\* is strictly equal to the given value, 0 for undefined
RECURSIVE FindFrom(_, _, _)
FindFrom(groupItems, label, i) ==
    IF i > Len(groupItems) THEN 0
    ELSE IF groupItems[i].label = label THEN i
    ELSE FindFrom(groupItems, label, i + 1)

\* variant: the search starts at the second item
Find_FromSecond(groupItems, label) == FindFrom(groupItems, label, 2)

Find(groupItems, label) == FindFrom(groupItems, label, 1)

\* variant: a `most` selection weighted 2
ApplyMost_Weighted(acc, mostItem) ==
    [scores |-> [acc.scores EXCEPT ![mostItem.dim] = @ + 2],
     most   |-> [acc.most EXCEPT ![mostItem.dim] = @ + 1],
     least  |-> acc.least]

\* part_000:28-31
ApplyMost(acc, mostItem) ==
    [scores |-> [acc.scores EXCEPT ![mostItem.dim] = @ + 1],
     most   |-> [acc.most EXCEPT ![mostItem.dim] = @ + 1],
     least  |-> acc.least]

\* variant: a `least` selection added instead of subtracted
ApplyLeast_Added(acc, leastItem) ==
    [scores |-> [acc.scores EXCEPT ![leastItem.dim] = @ + 1],
     most   |-> acc.most,
     least  |-> [acc.least EXCEPT ![leastItem.dim] = @ + 1]]

\* part_000:33-36
ApplyLeast(acc, leastItem) ==
    [scores |-> [acc.scores EXCEPT ![leastItem.dim] = @ - 1],
     most   |-> acc.most,
     least  |-> [acc.least EXCEPT ![leastItem.dim] = @ + 1]]

\* variant: a group is skipped unless both `most` and `least` are set
ProcessGroup_SkipIncomplete(acc, group, resp) ==
    IF group.id \notin DOMAIN resp THEN acc
    ELSE IF Falsy(resp[group.id].most) \/ Falsy(resp[group.id].least) THEN acc
    ELSE
        LET response == resp[group.id]
            mostIdx  == Find(group.items, response.most)
            leastIdx == Find(group.items, response.least)
            acc1 == IF mostIdx # 0 THEN ApplyMost(acc, group.items[mostIdx])
                    ELSE acc
        IN  IF leastIdx # 0 THEN ApplyLeast(acc1, group.items[leastIdx])
            ELSE acc1

\* part_000:18-37 -- the body of the forEach callback for one group
ProcessGroup(acc, group, resp) ==
    IF group.id \notin DOMAIN resp THEN acc
    ELSE
        LET response == resp[group.id]
            mostIdx  == Find(group.items, response.most)
            leastIdx == Find(group.items, response.least)
            acc1 == IF mostIdx # 0 THEN ApplyMost(acc, group.items[mostIdx])
                    ELSE acc
        IN  IF leastIdx # 0 THEN ApplyLeast(acc1, group.items[leastIdx])
            ELSE acc1

\* part_000:14-37 -- items.forEach over the schema, in order
RECURSIVE ForEachGroup(_, _, _, _)
ForEachGroup(acc, schema, resp, i) ==
    IF i > Len(schema) THEN acc
    ELSE LET next == ProcessGroup(acc, schema[i], resp)
         IN  \* the scores object keeps its four keys through every iteration
             IF DOMAIN next.scores = DimSet
             THEN ForEachGroup(next, schema, resp, i + 1)
             ELSE next

\* variant: the comparator (a, b) => a[1] - b[1]
CompareEntries_Ascending(a, b) == a[2] - b[2]

\* part_000:41 -- the comparator (a, b) => b[1] - a[1]
CompareEntries(a, b) == b[2] - a[2]

\* Array.prototype.sort on a short array: stable insertion, an entry goes
\* before the first sorted entry the comparator puts after it
RECURSIVE InsertEntry(_, _)
InsertEntry(sorted, e) ==
    IF sorted = <<>> THEN <<e>>
    ELSE IF CompareEntries(Head(sorted), e) > 0 THEN <<e>> \o sorted
    ELSE <<Head(sorted)>> \o InsertEntry(Tail(sorted), e)

RECURSIVE SortEntries(_, _)
SortEntries(sorted, rest) ==
    IF rest = <<>> THEN sorted
    ELSE SortEntries(InsertEntry(sorted, Head(rest)), Tail(rest))

\* variant: the scores object created with its keys in alphabetical order
Entries_Alphabetical(scores) ==
    << <<"C", scores["C"]>>, <<"D", scores["D"]>>,
       <<"I", scores["I"]>>, <<"S", scores["S"]>> >>

\* Object.entries(scores): [dim, score] pairs in key insertion order
Entries(scores) == [i \in 1..Len(Dims) |-> <<Dims[i], scores[Dims[i]]>>]

\* Array.prototype.join
RECURSIVE Join(_, _)
Join(strs, sep) ==
    IF strs = <<>> THEN ""
    ELSE IF Len(strs) = 1 THEN strs[1]
    ELSE strs[1] \o sep \o Join(Tail(strs), sep)

\* Array.prototype.filter on the sorted entries
RECURSIVE FilterScore(_, _)
FilterScore(entries, score) ==
    IF entries = <<>> THEN <<>>
    ELSE IF Head(entries)[2] = score
         THEN <<Head(entries)>> \o FilterScore(Tail(entries), score)
         ELSE FilterScore(Tail(entries), score)

DimsOf(entries) == [i \in 1..Len(entries) |-> entries[i][1]]

\* variant: three tied dimensions reported as "Balanced"
determinePrimaryType_ThreeBalanced(sortedDimensions) ==
    LET topScore == sortedDimensions[1][2]
        tiedDimensions == FilterScore(sortedDimensions, topScore)
    IN  IF Len(tiedDimensions) = 1 THEN "High " \o tiedDimensions[1][1]
        ELSE IF Len(tiedDimensions) = 2 THEN Join(DimsOf(tiedDimensions), "")
        ELSE "Balanced"

\* part_000:59-73
determinePrimaryType(sortedDimensions) ==
    LET topScore == sortedDimensions[1][2]
        tiedDimensions == FilterScore(sortedDimensions, topScore)
    IN  IF Len(tiedDimensions) = 1 THEN "High " \o tiedDimensions[1][1]
        ELSE IF Len(tiedDimensions) = 2 THEN Join(DimsOf(tiedDimensions), "")
        ELSE IF Len(tiedDimensions) = 3 THEN Join(DimsOf(tiedDimensions), "")
        ELSE "Balanced"

\* JSON.stringify of one {D, I, S, C} counter object
CountsJson(c) ==
    "{\"D\":" \o ToString(c["D"]) \o ",\"I\":" \o ToString(c["I"]) \o
    ",\"S\":" \o ToString(c["S"]) \o ",\"C\":" \o ToString(c["C"]) \o "}"

\* part_000:50 -- JSON.stringify(debug)
DebugJson(acc) ==
    "{\"most\":" \o CountsJson(acc.most) \o
    ",\"least\":" \o CountsJson(acc.least) \o "}"

\* variant: one scores object kept at module level and reused by every call
NewScoresObject_Shared(n) == 1

\* part_000:14 -- `const scores = {...}` creates an object on every call; its
\* identity when n scores objects exist already
NewScoresObject(n) == n + 1

\* part_000:12-52
calculateScores(resp, schema) ==
    LET acc == ForEachGroup([scores |-> ZeroScores, most |-> ZeroScores,
                             least |-> ZeroScores], schema, resp, 1)
        sortedDimensions == SortEntries(<<>>, Entries(acc.scores))
    IN  [scores      |-> acc.scores,
         primaryType |-> determinePrimaryType(sortedDimensions),
         typeOrder   |-> Join(DimsOf(sortedDimensions), ">"),
         debug       |-> DebugJson(acc)]

\* variant: without the else-if branch for most === least
IsMissing_NoSameCheck(resp, i) ==
    IF i \notin DOMAIN resp THEN TRUE
    ELSE Falsy(resp[i].most) \/ Falsy(resp[i].least)

\* part_000:85-91 -- one iteration of the loop: is group i pushed?
IsMissing(resp, i) ==
    IF i \notin DOMAIN resp THEN TRUE
    ELSE IF Falsy(resp[i].most) \/ Falsy(resp[i].least) THEN TRUE
    ELSE resp[i].most = resp[i].least

\* part_000:84-92 -- for (let i = 1; i <= totalGroups; i++)
RECURSIVE ValidateLoop(_, _, _, _)
ValidateLoop(missingGroups, resp, n, i) ==
    IF i > n THEN missingGroups
    ELSE ValidateLoop(IF IsMissing(resp, i) THEN Append(missingGroups, i)
                      ELSE missingGroups, resp, n, i + 1)

\* JS undefined, what a lookup of a missing key yields (an object with no
\* title; it is falsy)
Undefined == [undefined |-> TRUE]

\* part_000:106-206 -- the descriptions object, each entry by its title
descriptions ==
    [k \in {"High D", "High I", "High S", "High C", "DI", "DC", "IS", "SC",
            "Balanced"} |->
        [title |->
            CASE k = "High D" -> "Dominance (D)"
              [] k = "High I" -> "Influence (I)"
              [] k = "High S" -> "Steadiness (S)"
              [] k = "High C" -> "Conscientiousness (C)"
              [] k = "DI" -> "Dominance-Influence (DI)"
              [] k = "DC" -> "Dominance-Conscientiousness (DC)"
              [] k = "IS" -> "Influence-Steadiness (IS)"
              [] k = "SC" -> "Steadiness-Conscientiousness (SC)"
              [] k = "Balanced" -> "Balanced Profile"]]

\* obj[key] for a string key
Lookup(obj, key) == IF key \in DOMAIN obj THEN obj[key] ELSE Undefined

\* variant: without the || fallback
getTypeDescription_NoFallback(primaryType) == Lookup(descriptions, primaryType)

\* part_000:105-209 -- descriptions[primaryType] || descriptions['Balanced']
getTypeDescription(primaryType) ==
    LET entry == Lookup(descriptions, primaryType)
    IN  IF entry # Undefined THEN entry ELSE descriptions["Balanced"]

\* part_000:81-98
validateResponses(resp, n) ==
    LET missingGroups == ValidateLoop(<<>>, resp, n, 1)
    IN  [isValid |-> Len(missingGroups) = 0, missingGroups |-> missingGroups]

-----------------------------------------------------------------------------
(* disc.js (src/public/assets/js/disc.js) *)

TotalQuestions == 24

\* the value attribute of the five radios of a question
RadioValues == {"1", "2", "3", "4", "5"}

\* form.querySelector(`input[name="q${i}"]:checked`) found no radio
Unchecked == "<none>"

\* parseInt(selected.value, 10) on a radio value
ParseInt(value) ==
    CASE value = "1" -> 1
      [] value = "2" -> 2
      [] value = "3" -> 3
      [] value = "4" -> 4
      [] value = "5" -> 5

\* disc.js:148-154 -- the loop of validateForm, which returns at the first
\* question without a checked radio
RECURSIVE ValidateFormLoop(_, _)
ValidateFormLoop(f, i) ==
    IF i > TotalQuestions THEN TRUE
    ELSE IF f[i] = Unchecked THEN FALSE
    ELSE ValidateFormLoop(f, i + 1)

\* variant: the loop starts at question 2
validateForm_FromSecond(f) == ValidateFormLoop(f, 2)

\* disc.js:147-156
validateForm(f) == ValidateFormLoop(f, 1)

\* disc.js:186-191 -- the loop of sumQuestions
RECURSIVE SumLoop(_, _, _, _)
SumLoop(f, i, end, total) ==
    IF i > end THEN total
    ELSE SumLoop(f, i + 1, end,
                 IF f[i] # Unchecked THEN total + ParseInt(f[i]) ELSE total)

\* variant: the loop condition i < end
sumQuestions_ExclusiveEnd(f, start, end) == SumLoop(f, start, end - 1, 0)

\* disc.js:184-193
sumQuestions(f, start, end) == SumLoop(f, start, end, 0)

\* disc.js:221
HighRanges == [D |-> <<1, 6>>, I |-> <<7, 12>>, S |-> <<13, 18>>, C |-> <<19, 24>>]

\* disc.js:225-230 -- the loop of countHighAnswers
RECURSIVE HighLoop(_, _, _, _)
HighLoop(f, i, end, count) ==
    IF i > end THEN count
    ELSE HighLoop(f, i + 1, end,
                  IF f[i] # Unchecked /\ (f[i] = "4" \/ f[i] = "5")
                  THEN count + 1 ELSE count)

\* disc.js:220-232
countHighAnswers(f, style) ==
    HighLoop(f, HighRanges[style][1], HighRanges[style][2], 0)

\* disc.js:207
canonicalOrder == [D |-> 0, I |-> 1, S |-> 2, C |-> 3]

\* variant: the comparator without its high-answer tier
CompareStyles_NoHighCount(a, b) ==
    IF a.score # b.score THEN b.score - a.score
    ELSE canonicalOrder[a.style] - canonicalOrder[b.style]

\* disc.js:208-212 -- the comparator of styles.sort
CompareStyles(a, b) ==
    IF a.score # b.score THEN b.score - a.score
    ELSE IF a.highCount # b.highCount THEN b.highCount - a.highCount
    ELSE canonicalOrder[a.style] - canonicalOrder[b.style]

\* Array.prototype.sort on the four styles, as for the entries above
RECURSIVE InsertStyle(_, _)
InsertStyle(sorted, e) ==
    IF sorted = <<>> THEN <<e>>
    ELSE IF CompareStyles(Head(sorted), e) > 0 THEN <<e>> \o sorted
    ELSE <<Head(sorted)>> \o InsertStyle(Tail(sorted), e)

RECURSIVE SortStyles(_, _)
SortStyles(sorted, rest) ==
    IF rest = <<>> THEN sorted
    ELSE SortStyles(InsertStyle(sorted, Head(rest)), Tail(rest))

\* disc.js:198-215
rankStyles(scores, f) ==
    LET styles == [i \in 1..Len(Dims) |->
                      [style     |-> Dims[i],
                       score     |-> scores[Dims[i]],
                       highCount |-> countHighAnswers(f, Dims[i])]]
        sortedStyles == SortStyles(<<>>, styles)
    IN  [i \in 1..Len(sortedStyles) |-> sortedStyles[i].style]

\* disc.js:163-168
SumScores(f) ==
    [D |-> sumQuestions(f, 1, 6),
     I |-> sumQuestions(f, 7, 12),
     S |-> sumQuestions(f, 13, 18),
     C |-> sumQuestions(f, 19, 24)]

\* variant: secondary read from ranked[2]
discCalculateScores_ThirdAsSecondary(f) ==
    LET scores == SumScores(f)
        rankedStyles == rankStyles(scores, f)
    IN  [totals    |-> scores,
         primary   |-> rankedStyles[1],
         secondary |-> rankedStyles[3],
         vector    |-> CountsJson(scores)]

\* disc.js:161-179
discCalculateScores(f) ==
    LET scores == SumScores(f)
        rankedStyles == rankStyles(scores, f)
    IN  [totals    |-> scores,
         primary   |-> rankedStyles[1],
         secondary |-> rankedStyles[2],
         vector    |-> CountsJson(scores)]

-----------------------------------------------------------------------------
(* ui.js (kept at the end of src/public/js/form.js): the progress count *)

\* form.js:276-281 -- the loop of updateProgress
RECURSIVE ProgressLoop(_, _, _, _)
ProgressLoop(resp, n, i, completed) ==
    IF i > n THEN completed
    ELSE ProgressLoop(resp, n, i + 1,
            IF /\ i \in DOMAIN resp
               /\ ~Falsy(resp[i].most)
               /\ ~Falsy(resp[i].least)
               /\ resp[i].most # resp[i].least
            THEN completed + 1 ELSE completed)

\* variant: the loop starts at group 2
updateProgress_FromSecond(resp, n) == ProgressLoop(resp, n, 2, 0)

\* form.js:273-291
updateProgress(resp, n) == ProgressLoop(resp, n, 1, 0)

-----------------------------------------------------------------------------
(* Specification of the forced-choice scoring: calculateScores on every     *)
(* schema and response map of the bounds                                   *)

NoForm == [q \in {} |-> ""]
NoLikert == [totals |-> ZeroScores, primary |-> "", secondary |-> "",
             vector |-> ""]

Init ==
    /\ pc = "ready"
    /\ items \in Schemas
    /\ responses \in ResponseMaps(AnswerValues)
    /\ totalGroups = 0
    /\ result = NoResult
    /\ raised = FALSE
    /\ validation = NoValidation
    /\ form = NoForm
    /\ likert = NoLikert
    /\ ranked = <<>>
    /\ CallsIdle
    /\ HookIdle
    /\ DiscIdle
    /\ FormIdle

\* a call of calculateScores(responses, items); the function has no throw
\* statement and no error return
CalculateScores ==
    /\ pc = "ready"
    /\ result' = calculateScores(responses, items)
    /\ raised' = FALSE
    /\ pc' = "scored"
    /\ UNCHANGED <<items, responses, totalGroups, validation, form, likert, ranked, callVars, formVars, discVars, hookVars>>

Next == CalculateScores

Spec == Init /\ [][Next]_vars

-----------------------------------------------------------------------------
(* Specification of the forced-choice validation: validateResponses on     *)
(* every response map and every totalGroups of the bounds.  The function   *)
(* only tests the values for truthiness and equality, so the values are    *)
(* null, the empty string and the two labels of the module's Test 2        *)

ValidateValues == {Null, "", "A", "B"}

InitValidate ==
    /\ pc = "ready"
    /\ items = << [id |-> 1, items |-> StdItems] >>
    /\ responses \in ResponseMaps(ValidateValues)
    /\ totalGroups \in 0..(MaxGroups + 1)
    /\ result = NoResult
    /\ raised = FALSE
    /\ validation = NoValidation
    /\ form = NoForm
    /\ likert = NoLikert
    /\ ranked = <<>>
    /\ CallsIdle
    /\ HookIdle
    /\ DiscIdle
    /\ FormIdle

\* a call of validateResponses(responses, totalGroups)
ValidateResponses ==
    /\ pc = "ready"
    /\ validation' = validateResponses(responses, totalGroups)
    /\ pc' = "validated"
    /\ UNCHANGED <<items, responses, totalGroups, result, raised, form, likert, ranked, callVars, formVars, discVars, hookVars>>

\* form.js:60 -- a call of updateProgress(responses, totalGroups) on the
\* responses just validated
UpdateProgress ==
    /\ pc = "validated"
    /\ progress' = updateProgress(responses, totalGroups)
    /\ pc' = "progressed"
    /\ UNCHANGED <<items, responses, totalGroups, result, raised, validation,
                   form, likert, ranked, callVars, discVars, radios,
                   submitDisabled, loading, validationError, hideTimers,
                   highlighted, hidden, summary, timers, submitted, hookVars>>

NextValidate == ValidateResponses \/ UpdateProgress

SpecValidate == InitValidate /\ [][NextValidate]_vars

-----------------------------------------------------------------------------
(* Specification of the Likert scoring: disc.js calculateScores on forms    *)
(* in which every block has a common answer and at most MaxEdits of the     *)
(* first and last questions of the blocks are answered otherwise or are     *)
(* left unanswered                                                         *)

\* the common answer of each block: 3 or 5 per block, or 1 throughout
BaseAnswers == [DimSet -> {"3", "5"}] \cup { [d \in DimSet |-> "1"] }

EditQuestions == {1, 6, 7, 12, 13, 18, 19, 24}

BlockDim(q) ==
    IF q <= 6 THEN "D" ELSE IF q <= 12 THEN "I" ELSE IF q <= 18 THEN "S" ELSE "C"

FormEdits ==
    UNION { [qs -> RadioValues \cup {Unchecked}] :
              qs \in { e \in SUBSET EditQuestions : Cardinality(e) <= MaxEdits } }

\* the form with the given common answers, changed as the edits say
EditedForm(base, e) ==
    [q \in 1..TotalQuestions |->
        IF q \in DOMAIN e THEN e[q] ELSE base[BlockDim(q)]]

InitLikert ==
    /\ pc = "ready"
    /\ items = << [id |-> 1, items |-> StdItems] >>
    /\ responses = [g \in {} |-> [most |-> Null, least |-> Null]]
    /\ totalGroups = 0
    /\ result = NoResult
    /\ raised = FALSE
    /\ validation = NoValidation
    /\ \E base \in BaseAnswers, e \in FormEdits :
          /\ \A q \in DOMAIN e : e[q] # base[BlockDim(q)]
          /\ form = EditedForm(base, e)
    /\ likert = NoLikert
    /\ ranked = <<>>
    /\ CallsIdle
    /\ HookIdle
    /\ DiscIdle
    /\ FormIdle

\* a call of calculateScores(form) of disc.js, with its call of rankStyles
DiscCalculateScores ==
    /\ pc = "ready"
    /\ likert' = discCalculateScores(form)
    /\ ranked' = rankStyles(SumScores(form), form)
    /\ pc' = "likertScored"
    /\ UNCHANGED <<items, responses, totalGroups, result, raised, validation, form, callVars, formVars, discVars, hookVars>>

\* a call of validateForm(form); it returns a boolean and names no question
ValidateForm ==
    /\ pc = "ready"
    /\ validation' = [isValid |-> validateForm(form), missingGroups |-> <<>>]
    /\ pc' = "formValidated"
    /\ UNCHANGED <<items, responses, totalGroups, result, raised, form, likert, ranked, callVars, formVars, discVars, hookVars>>

NextLikert == DiscCalculateScores \/ ValidateForm

SpecLikert == InitLikert /\ [][NextLikert]_vars

-----------------------------------------------------------------------------
(* Specification of repeated calls: calculateScores and validateResponses  *)
(* called up to MaxCalls times each way on the same responses and schema,   *)
(* with the identity of every scores object returned                       *)

CallValues == {Null, "Decisive", "Patient"}

InitCalls ==
    /\ pc = "ready"
    /\ items \in Schemas
    /\ responses \in ResponseMaps(CallValues)
    /\ totalGroups = Len(items)
    /\ result = NoResult
    /\ raised = FALSE
    /\ validation = NoValidation
    /\ form = NoForm
    /\ likert = NoLikert
    /\ ranked = <<>>
    /\ CallsIdle
    /\ HookIdle
    /\ DiscIdle
    /\ FormIdle

\* part_000:12-52 -- one more call of calculateScores(responses, items); it
\* assigns to no property of its arguments
CallCalculateScores ==
    /\ Len(returned) < MaxCalls
    /\ result' = calculateScores(responses, items)
    /\ raised' = FALSE
    /\ returned' = Append(returned, NewScoresObject(allocated))
    /\ allocated' = allocated + 1
    /\ pc' = "scored"
    /\ UNCHANGED <<items, responses, totalGroups, validation, form, likert, ranked,
                   description, formVars, discVars, hookVars>>

\* part_000:81-98 -- a call of validateResponses(responses, totalGroups); it
\* assigns to no property of its argument
CallValidateResponses ==
    /\ Len(returned) < MaxCalls
    /\ validation' = validateResponses(responses, totalGroups)
    /\ pc' = "validated"
    /\ UNCHANGED <<items, responses, totalGroups, result, raised, form, likert,
                   ranked, callVars, formVars, discVars, hookVars>>

\* part_000:105-209 -- getTypeDescription called on the primaryType that
\* calculateScores just returned
CallGetTypeDescription ==
    /\ pc = "scored"
    /\ description' = getTypeDescription(result.primaryType)
    /\ pc' = "described"
    /\ UNCHANGED <<items, responses, totalGroups, result, raised, validation,
                   form, likert, ranked, allocated, returned, formVars, discVars, hookVars>>

NextCalls == CallCalculateScores \/ CallValidateResponses \/ CallGetTypeDescription

SpecCalls == InitCalls /\ [][NextCalls]_vars

-----------------------------------------------------------------------------
(* The forced-choice page: form.js, questions.js and the ui.js functions   *)
(* kept at the end of src/public/js/form.js                                *)

\* form.js:11
TOTAL_GROUPS == 15

\* form.js:10
SHOW_RESULTS == TRUE

\* README.md:7,37 -- the documentation gives the question bank 15 questions in
\* one place and 24 groups in another
BankSizes == {15, 24}

\* questions.js:18 -- questionItems as loaded from disc_items.json: groups with
\* ids 1..n, the two bindings of the adjectives alternating
QuestionBank(n) ==
    [g \in 1..n |-> [id |-> g,
                     items |-> IF g % 2 = 1 THEN StdItems ELSE AltItems]]

\* the radios of a group the user has not touched
NoRadios == [most |-> Unchecked, least |-> Unchecked]

\* questions.js:184-198 -- one record per group of questionItems, null for a
\* radio group without a checked radio
getCurrentResponses(dom, bank) ==
    [id \in { bank[k].id : k \in 1..Len(bank) } |->
        [most  |-> IF dom[id].most # Unchecked THEN dom[id].most ELSE Null,
         least |-> IF dom[id].least # Unchecked THEN dom[id].least ELSE Null]]

\* questions.js:228-236 -- the message chosen for a highlighted group; the
\* text stays empty when no branch applies
ErrorMessage(response) ==
    IF Falsy(response.most) /\ Falsy(response.least) THEN "both"
    ELSE IF Falsy(response.most) THEN "most"
    ELSE IF Falsy(response.least) THEN "least"
    ELSE IF response.most = response.least THEN "same"
    ELSE ""

\* variant: every group of the page that is not complete is highlighted,
\* whatever ids were passed
highlightIncompleteGroups_AllIncomplete(groupIds, dom, bank) ==
    LET resp == getCurrentResponses(dom, bank)
    IN  [g \in { h \in DOMAIN resp : ErrorMessage(resp[h]) # "" } |->
            ErrorMessage(resp[g])]

\* questions.js:204-248 -- all highlights cleared, then each given id that has
\* a group element highlighted with its message
highlightIncompleteGroups(groupIds, dom, bank) ==
    LET resp == getCurrentResponses(dom, bank)
    IN  [g \in { groupIds[k] : k \in 1..Len(groupIds) } \cap DOMAIN resp |->
            ErrorMessage(resp[g])]

\* the hidden fields as served: no value
NoHidden ==
    [score_D |-> "", score_I |-> "", score_S |-> "", score_C |-> "",
     primary_type |-> "", type_order |-> "", debug_vector |-> ""]

\* variant: type_order is not written
injectScores_NoTypeOrder(fields, results) ==
    [fields EXCEPT
        !.score_D = ToString(results.scores["D"]),
        !.score_I = ToString(results.scores["I"]),
        !.score_S = ToString(results.scores["S"]),
        !.score_C = ToString(results.scores["C"]),
        !.primary_type = results.primaryType,
        !.debug_vector = results.debug]

\* form.js:125-147 -- field.value = value turns a number into its decimal string
injectScores(fields, results) ==
    [fields EXCEPT
        !.score_D = ToString(results.scores["D"]),
        !.score_I = ToString(results.scores["I"]),
        !.score_S = ToString(results.scores["S"]),
        !.score_C = ToString(results.scores["C"]),
        !.primary_type = results.primaryType,
        !.type_order = results.typeOrder,
        !.debug_vector = results.debug]

\* form.js:374-413 -- what the preview shows once it is made visible
showResultsSummary(results) ==
    [scores |-> results.scores, primaryType |-> results.primaryType,
     typeOrder |-> results.typeOrder]

\* the preview container as served: hidden and empty
NoSummary == <<>>

\* variant: the button enabled whatever the validation says
setSubmitButtonState_AlwaysEnabled(enabled) == FALSE

\* form.js:339-351 -- the new value of submitBtn.disabled
setSubmitButtonState(enabled) == ~enabled

\* the adjectives the user picks among
ClickLabels == {"Decisive", "Enthusiastic"}

\* the radio groups the user still clicks in: most and least of the first
\* MaxOpen groups and, in a longer bank, most of the first group past
\* TOTAL_GROUPS
OpenRadios(bank) ==
    { <<g, kind>> \in (1..Len(bank)) \X {"most", "least"} :
        g <= MaxOpen \/ (g = TOTAL_GROUPS + 1 /\ kind = "most") }

\* The page either as served (nothing checked, no handler has run, the
\* button as index.html declares it) or after the user answered the groups
\* MaxOpen+1..TOTAL_GROUPS, handleRadioChange having run after every change:
\* the form is still incomplete, so the button is disabled and nothing but the
\* progress bar has been touched.
InitForm ==
    \E n \in BankSizes, served \in BOOLEAN :
        LET dom == [g \in 1..n |->
                      IF ~served /\ g > MaxOpen /\ g <= TOTAL_GROUPS
                      THEN [most |-> "Decisive", least |-> "Patient"]
                      ELSE NoRadios]
            resp == getCurrentResponses(dom, QuestionBank(n))
        IN  /\ pc = "ready"
            /\ items = QuestionBank(n)
            /\ radios = dom
            /\ responses = IF served THEN <<>> ELSE resp
            /\ totalGroups = TOTAL_GROUPS
            /\ result = NoResult
            /\ raised = FALSE
            /\ validation = NoValidation
            /\ form = NoForm
            /\ likert = NoLikert
            /\ ranked = <<>>
            /\ CallsIdle
            /\ HookIdle
            /\ DiscIdle
            /\ submitDisabled \in (IF served THEN BOOLEAN ELSE {TRUE})
            /\ loading = FALSE
            /\ validationError = Null
            /\ hideTimers = 0
            /\ highlighted = <<>>
            /\ hidden = NoHidden
            /\ summary = NoSummary
            /\ progress = IF served THEN 0 ELSE updateProgress(resp, TOTAL_GROUPS)
            /\ timers = 0
            /\ submitted = 0

\* form.js:48-52, 58-78 -- the user checks another radio of an open group and
\* the change listener runs handleRadioChange; the user stops once the page
\* has been submitted
HandleRadioChange ==
    \E r \in OpenRadios(items), label \in ClickLabels :
        /\ submitted = 0
        /\ radios[r[1]][r[2]] # label
        /\ LET dom == [radios EXCEPT ![r[1]][r[2]] = label]
               resp == getCurrentResponses(dom, items)
               v == validateResponses(resp, TOTAL_GROUPS)
               results == calculateScores(resp, items)
           IN  /\ radios' = dom
               /\ responses' = resp
               /\ progress' = updateProgress(resp, TOTAL_GROUPS)
               /\ validation' = v
               /\ submitDisabled' = setSubmitButtonState(v.isValid)
               /\ IF SHOW_RESULTS /\ v.isValid
                  THEN result' = results /\ summary' = showResultsSummary(results)
                  ELSE UNCHANGED <<result, summary, hookVars>>
               /\ IF v.isValid
                  THEN /\ validationError' = Null
                       /\ highlighted' = highlightIncompleteGroups(<<>>, dom, items)
                  ELSE UNCHANGED <<validationError, highlighted, hookVars>>
        /\ pc' = "handleRadioChange"
        /\ UNCHANGED <<items, totalGroups, raised, form, likert, ranked, callVars, discVars,
                       loading, hideTimers, hidden, timers, submitted, hookVars>>

\* form.js:84-119 -- a click on the enabled submit button; a rejected form
\* gets the error and the highlights, an accepted one the scores, the loading
\* state and a 100 ms timer
HandleSubmit ==
    /\ submitted = 0
    /\ ~submitDisabled
    /\ LET resp == getCurrentResponses(radios, items)
           v == validateResponses(resp, TOTAL_GROUPS)
           results == calculateScores(resp, items)
           fields == injectScores(hidden, results)
       IN  /\ responses' = resp
           /\ validation' = v
           /\ IF ~v.isValid
              THEN /\ hideTimers < MaxPending
                   /\ validationError' = Len(v.missingGroups)
                   /\ hideTimers' = hideTimers + 1
                   /\ highlighted' =
                          highlightIncompleteGroups(v.missingGroups, radios, items)
                   /\ pc' = "handleSubmit:rejected"
                   /\ UNCHANGED <<result, hidden, loading, submitDisabled, timers, hookVars>>
              ELSE /\ timers + submitted < MaxPending
                   /\ result' = results
                   /\ hidden' = fields
                   /\ loading' = TRUE
                   /\ submitDisabled' = TRUE
                   /\ timers' = timers + 1
                   /\ pc' = "handleSubmit:accepted"
                   /\ UNCHANGED <<validationError, hideTimers, highlighted, hookVars>>
    /\ UNCHANGED <<items, totalGroups, raised, form, likert, ranked, callVars, discVars,
                   radios, summary, progress, submitted, hookVars>>

\* form.js:116-118 -- a 100 ms timer fires: e.target.submit() sends the form
\* as it is now
SubmitTimer ==
    /\ timers > 0
    /\ timers' = timers - 1
    /\ submitted' = submitted + 1
    /\ pc' = "timer:submit"
    /\ UNCHANGED <<items, responses, totalGroups, result, raised, validation,
                   form, likert, ranked, callVars, discVars, radios, submitDisabled,
                   loading, validationError, hideTimers, highlighted, hidden,
                   summary, progress, hookVars>>

\* form.js:318-320 -- a 5 s timer of showValidationError fires
HideErrorTimer ==
    /\ hideTimers > 0
    /\ hideTimers' = hideTimers - 1
    /\ validationError' = Null
    /\ pc' = "timer:hideError"
    /\ UNCHANGED <<items, responses, totalGroups, result, raised, validation,
                   form, likert, ranked, callVars, discVars, radios, submitDisabled,
                   loading, highlighted, hidden, summary, progress, timers,
                   submitted, hookVars>>

NextForm == HandleRadioChange \/ HandleSubmit \/ SubmitTimer \/ HideErrorTimer

-----------------------------------------------------------------------------
(* The Likert page: the handlers of src/public/assets/js/disc.js           *)

\* disc.js:88-94 -- the loop of updateProgress
RECURSIVE AnsweredLoop(_, _, _)
AnsweredLoop(f, i, answeredCount) ==
    IF i > TotalQuestions THEN answeredCount
    ELSE AnsweredLoop(f, i + 1,
            IF f[i] # Unchecked THEN answeredCount + 1 ELSE answeredCount)

\* disc.js:83-117 -- the count updateProgress displays
discUpdateProgress(f) == AnsweredLoop(f, 1, 0)

\* the hidden fields of the Likert form as served: no value
NoDiscHidden ==
    [total_D |-> "", total_I |-> "", total_S |-> "", total_C |-> "",
     primary_style |-> "", secondary_style |-> "", style_vector |-> ""]

\* disc.js:237-245 -- .value = n turns a number into its decimal string
populateHiddenFields(fields, scores) ==
    [fields EXCEPT
        !.total_D = ToString(scores.totals["D"]),
        !.total_I = ToString(scores.totals["I"]),
        !.total_S = ToString(scores.totals["S"]),
        !.total_C = ToString(scores.totals["C"]),
        !.primary_style = scores.primary,
        !.secondary_style = scores.secondary,
        !.style_vector = scores.vector]

\* disc.js:251 -- new FormData(form): the checked radios and the hidden fields
\* as they are when it is built
FormData(f, fields) == [answers |-> f, fields |-> fields]

\* disc.js:286-305 -- what the #results section shows
renderResults(scores) ==
    [result_D |-> ToString(scores.totals["D"]),
     result_I |-> ToString(scores.totals["I"]),
     result_S |-> ToString(scores.totals["S"]),
     result_C |-> ToString(scores.totals["C"]),
     result_primary |-> scores.primary,
     result_secondary |-> scores.secondary]

\* the #results section as served: hidden
NoRender == <<>>

\* the common answers of the page's blocks, the questions the user still
\* answers (the first of each of the first MaxOpen blocks) and what they pick
PageBases ==
    { [d \in DimSet |-> "3"], [d \in DimSet |-> IF d = "D" THEN "4" ELSE "3"] }
OpenQuestions == { 6 * (k - 1) + 1 : k \in 1..MaxOpen }
PickValues == {"2", "5"}

\* The page after the user answered every question but the open ones;
\* updateProgress ran after each change, no submit has happened.
InitDisc ==
    \E base \in PageBases :
        LET f == [q \in 1..TotalQuestions |->
                    IF q \in OpenQuestions THEN Unchecked ELSE base[BlockDim(q)]]
        IN  /\ pc = "ready"
            /\ items = <<>>
            /\ responses = <<>>
            /\ totalGroups = 0
            /\ result = NoResult
            /\ raised = FALSE
            /\ validation = NoValidation
            /\ form = f
            /\ likert = NoLikert
            /\ ranked = <<>>
            /\ CallsIdle
            /\ HookIdle
            /\ radios = <<>>
            /\ submitDisabled = TRUE
            /\ loading = FALSE
            /\ validationError = Null
            /\ hideTimers = 0
            /\ highlighted = <<>>
            /\ hidden = NoDiscHidden
            /\ summary = <<>>
            /\ progress = discUpdateProgress(f)
            /\ timers = 0
            /\ submitted = 0
            /\ requests = <<>>
            /\ rendered = NoRender

\* the Likert page is open and has not been left
DiscOpen == form # NoForm /\ pc # "unload"

\* disc.js:70-74 -- the user checks a radio of an open question and the change
\* listener runs updateProgress
SelectAnswer ==
    \E q \in OpenQuestions, v \in PickValues :
        /\ DiscOpen
        /\ form[q] # v
        /\ form' = [form EXCEPT ![q] = v]
        /\ progress' = discUpdateProgress(form')
        /\ pc' = "updateProgress"
        /\ UNCHANGED <<items, responses, totalGroups, result, raised, validation,
                       likert, ranked, callVars, radios, submitDisabled, loading,
                       validationError, hideTimers, highlighted, hidden, summary,
                       timers, submitted, discVars, hookVars>>

\* disc.js:122-142, 250-259 -- a submit event: the alert for an incomplete
\* form; otherwise the scores, the hidden fields, the FormData and the fetch
DiscHandleSubmit ==
    /\ DiscOpen
    /\ IF ~validateForm(form)
       THEN /\ pc' = "alert"
            /\ UNCHANGED <<likert, hidden, requests, hookVars>>
       ELSE LET scores == discCalculateScores(form)
                fields == populateHiddenFields(hidden, scores)
            IN  /\ Len(requests) < MaxPending
                /\ likert' = scores
                /\ hidden' = fields
                /\ requests' = Append(requests,
                                  [scores |-> scores,
                                   body   |-> FormData(form, fields),
                                   status |-> "pending"])
                /\ pc' = "submitViaAjax"
    /\ UNCHANGED <<items, responses, totalGroups, result, raised, validation,
                   form, ranked, callVars, radios, submitDisabled, loading,
                   validationError, hideTimers, highlighted, summary, progress,
                   timers, submitted, rendered, hookVars>>

\* disc.js:260-268 -- the response of POST k arrives and is ok
FetchOk ==
    \E k \in 1..Len(requests) :
        /\ DiscOpen
        /\ requests[k].status = "pending"
        /\ rendered' = renderResults(requests[k].scores)
        /\ requests' = [requests EXCEPT ![k].status = "rendered"]
        /\ pc' = "renderResults"
        /\ UNCHANGED <<items, responses, totalGroups, result, raised, validation,
                       form, likert, ranked, callVars, formVars, hookVars>>

\* disc.js:269-280 -- the response of POST k is not ok, or its fetch rejects:
\* either way form.submit() is called
FetchFails ==
    \E k \in 1..Len(requests), how \in {"notOk", "networkError"} :
        /\ DiscOpen
        /\ requests[k].status = "pending"
        /\ submitted' = submitted + 1
        /\ requests' = [requests EXCEPT ![k].status = "native"]
        /\ pc' = how
        /\ UNCHANGED <<items, responses, totalGroups, result, raised, validation,
                       form, likert, ranked, callVars, radios, submitDisabled,
                       loading, validationError, hideTimers, highlighted, hidden,
                       summary, progress, timers, rendered, hookVars>>

\* disc.js:272, 279 -- form.submit() navigates away: when the page is left,
\* the fetches still pending are cancelled and their callbacks never run
Unload ==
    /\ DiscOpen
    /\ submitted > 0
    /\ requests' = [k \in 1..Len(requests) |->
                      IF requests[k].status = "pending"
                      THEN [requests[k] EXCEPT !.status = "cancelled"]
                      ELSE requests[k]]
    /\ pc' = "unload"
    /\ UNCHANGED <<items, responses, totalGroups, result, raised, validation,
                   form, likert, ranked, callVars, formVars, rendered, hookVars>>

NextDisc == SelectAnswer \/ DiscHandleSubmit \/ FetchOk \/ FetchFails \/ Unload

-----------------------------------------------------------------------------
(* The two front ends together: one of the two pages is open *)

InitPages == InitForm \/ InitDisc

NextPages == NextForm \/ NextDisc

SpecPages == InitPages /\ [][NextPages]_vars

\* the Likert page with every pending fetch settling eventually, unless the
\* page is left first
SpecDiscFair == InitDisc /\ [][NextDisc]_vars /\ WF_vars(FetchOk \/ FetchFails)

-----------------------------------------------------------------------------
(* The webhook relay: exports.handler, the Netlify function kept at the    *)
(* end of src/public/js/form.js                                            *)

\* JSON values as JSON.parse builds them; a number is kept as its text and
\* an object keeps its keys in insertion order
JNull == [type |-> "null"]
JString(s) == [type |-> "string", value |-> s]
JNumber(text) == [type |-> "number", value |-> text]
JObject(keys, props) == [type |-> "object", keys |-> keys, props |-> props]

\* process.env.WEBHOOK_URL when the variable is not set
Unset == "<undefined>"

\* form.js:580 -- JSON.parse(event.body) on the bodies of the model: the
\* value, or the SyntaxError it throws; a null body is parsed as the text
\* "null"
JSONParse(text) ==
    CASE text = "{\"id\":\"a1\",\"form_name\":\"disc\",\"created_at\":\"2025-01-01T00:00:00.000Z\",\"data\":{\"score_D\":\"1\"}}" ->
            [ok |-> TRUE,
             value |-> JObject(<<"id", "form_name", "created_at", "data">>,
                               [id |-> JString("a1"),
                                form_name |-> JString("disc"),
                                created_at |-> JString("2025-01-01T00:00:00.000Z"),
                                data |-> JObject(<<"score_D">>,
                                                 [score_D |-> JString("1")])])]
      [] text = "{\"id\":\"a1\"}" ->
            [ok |-> TRUE, value |-> JObject(<<"id">>, [id |-> JString("a1")])]
      [] text = "{\"id\":7}" ->
            [ok |-> TRUE, value |-> JObject(<<"id">>, [id |-> JNumber("7")])]
      [] text = "{\"id\":0}" ->
            [ok |-> TRUE, value |-> JObject(<<"id">>, [id |-> JNumber("0")])]
      [] text = "{\"id\":\"\"}" ->
            [ok |-> TRUE, value |-> JObject(<<"id">>, [id |-> JString("")])]
      [] text = "{\"id\":null}" ->
            [ok |-> TRUE, value |-> JObject(<<"id">>, [id |-> JNull])]
      [] text = "{}" ->
            [ok |-> TRUE, value |-> JObject(<<>>, <<>>)]
      [] text = "42" ->
            [ok |-> TRUE, value |-> JNumber("42")]
      [] text = "\"a1\"" ->
            [ok |-> TRUE, value |-> JString("a1")]
      [] text = "null" ->
            [ok |-> TRUE, value |-> JNull]
      [] text = Null ->
            [ok |-> TRUE, value |-> JNull]
      [] OTHER ->
            [ok |-> FALSE, value |-> JNull]

\* JS truthiness of a JSON value or undefined
Truthy(v) ==
    IF v = Undefined THEN FALSE
    ELSE CASE v.type = "null" -> FALSE
           [] v.type = "string" -> v.value # ""
           [] v.type = "number" -> v.value # "0"
           [] OTHER -> TRUE

\* a || b
OrElse(a, b) == IF Truthy(a) THEN a ELSE b

\* submission.key for a value that is not null: undefined unless the value is
\* an object with that key
GetProp(v, key) ==
    IF v.type = "object" /\ key \in DOMAIN v.props THEN v.props[key] ELSE Undefined

\* JSON.stringify of a JSON value
RECURSIVE Stringify(_), StringifyProps(_, _)
Stringify(v) ==
    CASE v.type = "null" -> "null"
      [] v.type = "number" -> v.value
      [] v.type = "string" -> "\"" \o v.value \o "\""
      [] v.type = "object" -> "{" \o StringifyProps(v, 1) \o "}"

StringifyProps(v, i) ==
    IF i > Len(v.keys) THEN ""
    ELSE (IF i > 1 THEN "," ELSE "")
             \o "\"" \o v.keys[i] \o "\":" \o Stringify(v.props[v.keys[i]])
             \o StringifyProps(v, i + 1)

\* variant: every method is let through
MethodAllowed_Any(method) == TRUE

\* form.js:558 -- event.httpMethod !== 'POST' is answered with 405
MethodAllowed(method) == method = "POST"

\* form.js:568 -- !webhookUrl: the variable is unset or empty
NoUrl(url) == url = Unset \/ url = ""

\* variant: every response counts as ok
ResponseOk_Always(status) == TRUE

\* form.js:605 -- response.ok of the fetch API: a status of 200..299
ResponseOk(status) == status \in 200..299

\* a value the handler returns (its promise fulfils with it) and an error
\* that leaves it (its promise rejects)
Returned(statusCode, body) ==
    [kind |-> "returned", statusCode |-> statusCode, body |-> body]
Threw(error) == [kind |-> "threw", error |-> error]

\* form.js:619-629 -- the catch block: every error of the try block becomes a
\* 500 with the error's message (the engine's text for the errors it raises)
Catch(message) ==
    Returned(500, "{\"error\":\"Failed to forward submission\",\"message\":\""
                      \o message \o "\"}")

\* form.js:611-617
Forwarded(payload) ==
    Returned(200, "{\"message\":\"Submission forwarded successfully\",\"submissionId\":"
                      \o Stringify(payload.props.submissionId) \o "}")

\* form.js:578, 619 -- try { ... } catch (error) { ... } around an outcome of
\* the try block
TryCatch(outcome) ==
    IF outcome.kind = "threw" THEN Catch(outcome.error) ELSE outcome

\* form.js:580-588 -- the try block up to the payload: JSON.parse throws a
\* SyntaxError on a body that is not JSON, and reading submission.id throws a
\* TypeError when the body is the JSON null
BuildPayload(body, now) ==
    LET p == JSONParse(body)
        submission == p.value
    IN  IF ~p.ok THEN [error |-> "SyntaxError", payload |-> JNull]
        ELSE IF submission.type = "null"
        THEN [error |-> "TypeError", payload |-> JNull]
        ELSE [error |-> "",
              payload |->
                  JObject(<<"submissionId", "formName", "timestamp", "data">>,
                    [submissionId |-> OrElse(GetProp(submission, "id"),
                                             JString("unknown")),
                     formName |-> OrElse(GetProp(submission, "form_name"),
                                         JString("disc-assessment")),
                     timestamp |-> OrElse(GetProp(submission, "created_at"),
                                          JString(now)),
                     data |-> OrElse(GetProp(submission, "data"),
                                     JObject(<<>>, <<>>))])]

\* what the function can be invoked with
Methods == {"POST", "GET", "OPTIONS"}
Bodies ==
    { "{\"id\":\"a1\",\"form_name\":\"disc\",\"created_at\":\"2025-01-01T00:00:00.000Z\",\"data\":{\"score_D\":\"1\"}}",
      "{\"id\":\"a1\"}", "{\"id\":7}", "{\"id\":0}", "{\"id\":\"\"}",
      "{\"id\":null}", "{}", "42", "\"a1\"", "null", Null,
      "{\"id\":", "form-name=disc-assessment&score_D=1", "" }
Urls == {Unset, "", "https://hooks.example.com/catch/1"}
Clock == {"2025-06-01T12:00:00.000Z"}
WebhookStatuses == {200, 204, 302, 404, 500}

InitWebhook ==
    /\ pc = "invoked"
    /\ items = <<>>
    /\ responses = <<>>
    /\ totalGroups = 0
    /\ result = NoResult
    /\ raised = FALSE
    /\ validation = NoValidation
    /\ form = <<>>
    /\ likert = NoLikert
    /\ ranked = <<>>
    /\ CallsIdle
    /\ DiscIdle
    /\ FormIdle
    /\ event \in [httpMethod : Methods, body : Bodies]
    /\ env \in Urls
    /\ parsed = 0
    /\ outbox = <<>>
    /\ fetched = [kind |-> "none"]
    /\ reply = [kind |-> "none"]

\* form.js:556-603 -- the handler from its start to its first return or to
\* the await of the fetch
Handler ==
    /\ pc = "invoked"
    /\ IF ~MethodAllowed(event.httpMethod)
       THEN /\ reply' = Returned(405, "{\"error\":\"Method not allowed\"}")
            /\ pc' = "returned"
            /\ UNCHANGED <<parsed, outbox>>
       ELSE IF NoUrl(env)
       THEN /\ reply' = Returned(200, "{\"message\":\"Webhook not configured. Set WEBHOOK_URL environment variable to enable.\"}")
            /\ pc' = "returned"
            /\ UNCHANGED <<parsed, outbox>>
       ELSE \E now \in Clock :
                LET built == BuildPayload(event.body, now)
                IN  /\ parsed' = parsed + 1
                    /\ IF built.error # ""
                       THEN /\ reply' = TryCatch(Threw(built.error))
                            /\ pc' = "returned"
                            /\ UNCHANGED outbox
                       ELSE /\ outbox' = Append(outbox,
                                            [url |-> env, method |-> "POST",
                                             body |-> Stringify(built.payload),
                                             payload |-> built.payload])
                            /\ pc' = "fetching"
                            /\ UNCHANGED reply
    /\ UNCHANGED <<items, responses, totalGroups, result, raised, validation,
                   form, likert, ranked, callVars, formVars, discVars,
                   event, env, fetched>>

\* form.js:596-617 -- the fetch resolves with a response of some status
WebhookResponds ==
    /\ pc = "fetching"
    /\ \E status \in WebhookStatuses :
           /\ fetched' = [kind |-> "response", status |-> status]
           /\ reply' = TryCatch(
                           IF ~ResponseOk(status)
                           THEN Threw("Webhook responded with status: "
                                          \o ToString(status))
                           ELSE Forwarded(outbox[Len(outbox)].payload))
    /\ pc' = "returned"
    /\ UNCHANGED <<items, responses, totalGroups, result, raised, validation,
                   form, likert, ranked, callVars, formVars, discVars,
                   event, env, parsed, outbox>>

\* form.js:596, 619-629 -- the fetch rejects (no connection, bad URL)
WebhookFails ==
    /\ pc = "fetching"
    /\ fetched' = [kind |-> "rejected"]
    /\ reply' = TryCatch(Threw("fetch failed"))
    /\ pc' = "returned"
    /\ UNCHANGED <<items, responses, totalGroups, result, raised, validation,
                   form, likert, ranked, callVars, formVars, discVars,
                   event, env, parsed, outbox>>

NextWebhook == Handler \/ WebhookResponds \/ WebhookFails

SpecWebhook == InitWebhook /\ [][NextWebhook]_vars

-----------------------------------------------------------------------------
(* Properties of the forced-choice module *)

\* the permutations of the four dimensions
Perms ==
    { p \in { <<a, b, c, d>> : a \in DimSet, b \in DimSet, c \in DimSet, d \in DimSet } :
        \A i, j \in 1..4 : i # j => p[i] # p[j] }

\* the string a ranking is reported as: its letters joined by ">"
OrderString == [p \in Perms |-> Join(p, ">")]

\* position of a dimension in the canonical order D, I, S, C
CanonIdx(d) == CHOOSE i \in 1..4 : Dims[i] = d

\* the schema binds the label to the dimension in this group
Bound(group, label, d) ==
    \E i \in 1..Len(group.items) :
        group.items[i].label = label /\ group.items[i].dim = d

Answered(g) == items[g].id \in DOMAIN responses

MostGroups(d) ==
    { g \in 1..Len(items) :
        Answered(g) /\ Bound(items[g], responses[items[g].id].most, d) }

LeastGroups(d) ==
    { g \in 1..Len(items) :
        Answered(g) /\ Bound(items[g], responses[items[g].id].least, d) }

\* C1: calculateScores returns, for each dimension, the number of groups
\* whose `most` label is bound to it minus the number of groups whose `least`
\* label is bound to it.
C1_Aggregation ==
    pc = "scored" =>
        \A d \in DimSet :
            result.scores[d] =
                Cardinality(MostGroups(d)) - Cardinality(LeastGroups(d))

\* the scenario of Test 1: one group, most Decisive (D), least Patient (S)
C1_Witness ==
    /\ pc = "scored"
    /\ items = << [id |-> 1, items |-> StdItems] >>
    /\ DOMAIN responses = {1}
    /\ responses[1] = [most |-> "Decisive", least |-> "Patient"]
    /\ result.scores = [D |-> 1, I |-> 0, S |-> -1, C |-> 0]

\* the set of group ids validateResponses has to report for 1..n
BadGroups(n) ==
    { i \in 1..n :
        \/ i \notin DOMAIN responses
        \/ Falsy(responses[i].most)
        \/ Falsy(responses[i].least)
        \/ responses[i].most = responses[i].least }

\* C2: validateResponses returns as missingGroups exactly the ids i in 1..n
\* whose response is absent, lacks `most`, lacks `least` or has most = least,
\* each once and in ascending order, and isValid is true iff that list is
\* empty.
C2_Validation ==
    pc = "validated" =>
        LET mg == validation.missingGroups
        IN  /\ { mg[k] : k \in 1..Len(mg) } = BadGroups(totalGroups)
            /\ \A j, k \in 1..Len(mg) : j < k => mg[j] < mg[k]
            /\ validation.isValid <=> (BadGroups(totalGroups) = {})

\* group 1 answered with most = least, group 2 without an entry: both listed
C2_Witness ==
    /\ pc = "validated"
    /\ totalGroups = 2
    /\ DOMAIN responses = {1}
    /\ responses[1] = [most |-> "A", least |-> "A"]
    /\ validation.missingGroups = <<1, 2>>
    /\ ~validation.isValid

\* a response names a non-empty label that its group's schema does not have
IsMismatch(g, label) ==
    /\ ~Falsy(label)
    /\ \A i \in 1..Len(items[g].items) : items[g].items[i].label # label

HasMismatch ==
    \E g \in 1..Len(items) :
        /\ Answered(g)
        /\ \/ IsMismatch(g, responses[items[g].id].most)
           \/ IsMismatch(g, responses[items[g].id].least)

\* C3: when a response's `most` or `least` is a non-empty label that is not
\* among its group's items, calculateScores reports an error instead of
\* returning a score vector.
C3_MismatchFailsLoudly ==
    (pc = "scored" /\ HasMismatch) => raised

\* the dimensions whose score is the maximum
TopDims == { d \in DimSet : \A e \in DimSet : result.scores[d] >= result.scores[e] }

InTop(d) == d \in TopDims

\* C4: with T the dimensions of maximal score, primaryType is "High X" when
\* T = {X}, the letters of T in their typeOrder order when T has 2 or 3
\* members, and "Balanced" when T has 4.
C4_PrimaryLabel ==
    pc = "scored" =>
        \E p \in Perms :
            /\ result.typeOrder = OrderString[p]
            /\ result.primaryType =
                  IF Cardinality(TopDims) = 1
                  THEN "High " \o (CHOOSE d \in TopDims : TRUE)
                  ELSE IF Cardinality(TopDims) \in {2, 3}
                  THEN Join(SelectSeq(p, InTop), "")
                  ELSE "Balanced"

\* the scenario of Test 3: D = I = 1 highest gives "DI"
C4_Witness ==
    /\ pc = "scored"
    /\ result.scores = [D |-> 1, I |-> 1, S |-> -1, C |-> -1]
    /\ result.primaryType = "DI"

\* C5: for every response map and schema, incomplete or invalid ones
\* included, typeOrder is D, I, S, C each exactly once, joined by ">", in
\* non-increasing order of score.
C5_TypeOrderPermutation ==
    pc = "scored" =>
        \E p \in Perms :
            /\ result.typeOrder = OrderString[p]
            /\ \A i, j \in 1..4 :
                  i < j => result.scores[p[i]] >= result.scores[p[j]]

\* an incomplete response map (no `least`) that ranks C first
C5_Witness ==
    /\ pc = "scored"
    /\ ~validateResponses(responses, Len(items)).isValid
    /\ result.typeOrder = "C>D>I>S"

\* the dimensions in canonical order, restricted to a set
CanonicalSeq(T) == SelectSeq(Dims, LAMBDA d : d \in T)

\* C6: two dimensions of equal raw score appear in typeOrder, and so in a
\* 2- or 3-letter tie label, in the canonical order D, I, S, C.
C6_CanonicalTieBreak ==
    pc = "scored" =>
        /\ \E p \in Perms :
              /\ result.typeOrder = OrderString[p]
              /\ \A i, j \in 1..4 :
                    (i < j /\ result.scores[p[i]] = result.scores[p[j]])
                        => CanonIdx(p[i]) < CanonIdx(p[j])
        /\ Cardinality(TopDims) \in {2, 3}
              => result.primaryType = Join(CanonicalSeq(TopDims), "")

\* I and C tied at the top, D and S tied below
C6_Witness ==
    /\ pc = "scored"
    /\ result.scores = [D |-> -1, I |-> 1, S |-> -1, C |-> 1]
    /\ result.typeOrder = "I>C>D>S"
    /\ result.primaryType = "IC"

\* C7: for a schema of N groups with distinct ids every dimension score lies
\* in [-N, +N].
C7_Range ==
    pc = "scored" =>
        \A d \in DimSet :
            /\ result.scores[d] >= -Len(items)
            /\ result.scores[d] <= Len(items)

\* both ends of the range are reached with more than one group
C7_Witness ==
    /\ pc = "scored"
    /\ Len(items) >= 2
    /\ \E d, e \in DimSet :
          result.scores[d] = Len(items) /\ result.scores[e] = -Len(items)

\* what group g adds to dimension d when an absent entry, a null `most` and a
\* null `least` each count for nothing
Contribution(g, d) ==
    LET hasMost  == Answered(g) /\ ~Falsy(responses[items[g].id].most)
        hasLeast == Answered(g) /\ ~Falsy(responses[items[g].id].least)
    IN  (IF hasMost /\ Bound(items[g], responses[items[g].id].most, d)
         THEN 1 ELSE 0)
        - (IF hasLeast /\ Bound(items[g], responses[items[g].id].least, d)
           THEN 1 ELSE 0)

RECURSIVE ContributionSum(_, _)
ContributionSum(d, g) ==
    IF g = 0 THEN 0 ELSE ContributionSum(d, g - 1) + Contribution(g, d)

\* C13: calculateScores never fails on incomplete input: a group without a
\* response entry, a null `most` and a null `least` each contribute 0 (a group
\* with only `most` adds +1 and nothing else) and a result object with a
\* ranking and a primary type is returned.
C13_AbsentContributesZero ==
    pc = "scored" =>
        /\ ~raised
        /\ \E p \in Perms : result.typeOrder = OrderString[p]
        /\ result.primaryType # ""
        /\ \A d \in DimSet : result.scores[d] = ContributionSum(d, Len(items))

\* group 1 has no entry, group 2 has only `most`: D is 1 and the rest 0
C13_Witness ==
    /\ pc = "scored"
    /\ Len(items) = 2
    /\ items[2].items = StdItems
    /\ DOMAIN responses = {2}
    /\ responses[2] = [most |-> "Decisive", least |-> Null]
    /\ result.scores = [D |-> 1, I |-> 0, S |-> 0, C |-> 0]
    /\ result.primaryType = "High D"

-----------------------------------------------------------------------------
(* Properties of the Likert module *)

\* the questions of a dimension's block
Block(d) ==
    CASE d = "D" -> 1..6
      [] d = "I" -> 7..12
      [] d = "S" -> 13..18
      [] d = "C" -> 19..24

\* how many questions of the block have the given radio checked
Chosen(d, value) == Cardinality({ q \in Block(d) : form[q] = value })

BlockSum(d) ==
    Chosen(d, "1") + 2 * Chosen(d, "2") + 3 * Chosen(d, "3") +
    4 * Chosen(d, "4") + 5 * Chosen(d, "5")

BlockHighCount(d) == Chosen(d, "4") + Chosen(d, "5")

AllAnswered == \A q \in 1..TotalQuestions : form[q] \in RadioValues

\* C8: disc.js calculateScores sets D, I, S, C to the plain sums of the
\* selected values of questions 1-6, 7-12, 13-18 and 19-24; when all 24
\* questions are answered every total lies in [6, 30].
C8_LikertSums ==
    pc = "likertScored" =>
        \A d \in DimSet :
            /\ likert.totals[d] = BlockSum(d)
            /\ AllAnswered => (likert.totals[d] >= 6 /\ likert.totals[d] <= 30)

\* all 5s gives 30 for each dimension
C8_Witness ==
    /\ pc = "likertScored"
    /\ \A q \in 1..TotalQuestions : form[q] = "5"
    /\ likert.totals = [D |-> 30, I |-> 30, S |-> 30, C |-> 30]

\* a ranks above b: higher score, else more high answers, else canonical
RanksAbove(a, b) ==
    \/ BlockSum(a) > BlockSum(b)
    \/ /\ BlockSum(a) = BlockSum(b)
       /\ BlockHighCount(a) > BlockHighCount(b)
    \/ /\ BlockSum(a) = BlockSum(b)
       /\ BlockHighCount(a) = BlockHighCount(b)
       /\ CanonIdx(a) < CanonIdx(b)

\* C9: rankStyles returns a permutation of D, I, S, C in which a dimension
\* placed before another has the higher score, or the same score and more
\* answers of 4 or 5, or both the same and the earlier canonical position.
C9_RankComparator ==
    pc = "likertScored" =>
        /\ ranked \in Perms
        /\ \A i, j \in 1..4 : i < j => RanksAbove(ranked[i], ranked[j])

\* a tie in score broken by the high-answer count against the canonical order
C9_Witness ==
    /\ pc = "likertScored"
    /\ \E i, j \in 1..4 :
          /\ i < j
          /\ BlockSum(ranked[i]) = BlockSum(ranked[j])
          /\ BlockHighCount(ranked[i]) > BlockHighCount(ranked[j])
          /\ CanonIdx(ranked[i]) > CanonIdx(ranked[j])

AllTied ==
    \A d, e \in DimSet :
        BlockSum(d) = BlockSum(e) /\ BlockHighCount(d) = BlockHighCount(e)

\* C10: primary has the highest total, secondary the highest total among the
\* other three, the two differ, and with all totals and high-answer counts
\* equal primary is D and secondary is I.
C10_PrimarySecondary ==
    pc = "likertScored" =>
        /\ likert.primary \in DimSet
        /\ likert.secondary \in DimSet
        /\ likert.primary # likert.secondary
        /\ \A d \in DimSet : likert.totals[likert.primary] >= likert.totals[d]
        /\ \A d \in DimSet \ {likert.primary} :
              likert.totals[likert.secondary] >= likert.totals[d]
        /\ AllTied => (likert.primary = "D" /\ likert.secondary = "I")

\* all 3s: four totals of 18, no high answers, primary D and secondary I
C10_Witness ==
    /\ pc = "likertScored"
    /\ \A q \in 1..TotalQuestions : form[q] = "3"
    /\ likert.totals = [D |-> 18, I |-> 18, S |-> 18, C |-> 18]
    /\ likert.primary = "D"
    /\ likert.secondary = "I"

\* the questions a complete report has to name
InvalidQuestions == { q \in 1..TotalQuestions : form[q] \notin RadioValues }

\* C11: validating a Likert form checks all 24 questions and reports the
\* identifiers of all unanswered or out-of-range questions, in ascending
\* order, rather than stopping at the first failure.
C11_LikertCompleteReport ==
    pc = "formValidated" =>
        LET mq == validation.missingGroups
        IN  /\ { mq[k] : k \in 1..Len(mq) } = InvalidQuestions
            /\ \A j, k \in 1..Len(mq) : j < k => mq[j] < mq[k]
            /\ validation.isValid <=> (InvalidQuestions = {})

ResolvedMost ==
    { g \in 1..Len(items) :
        /\ Answered(g)
        /\ \E i \in 1..Len(items[g].items) :
              items[g].items[i].label = responses[items[g].id].most }

ResolvedLeast ==
    { g \in 1..Len(items) :
        /\ Answered(g)
        /\ \E i \in 1..Len(items[g].items) :
              items[g].items[i].label = responses[items[g].id].least }

\* the responses pass validation over the schema's groups and every selected
\* label is an item of its group
CompleteResolved ==
    /\ BadGroups(Len(items)) = {}
    /\ ResolvedMost = 1..Len(items)
    /\ ResolvedLeast = 1..Len(items)

ScoreSum ==
    result.scores["D"] + result.scores["I"] + result.scores["S"] + result.scores["C"]

\* C23: the four totals of calculateScores sum to the number of groups with a
\* resolvable `most` minus the number of groups with a resolvable `least`; for
\* responses that pass validateResponses with every label in its group, to 0.
C23_ZeroSum ==
    pc = "scored" =>
        /\ ScoreSum = Cardinality(ResolvedMost) - Cardinality(ResolvedLeast)
        /\ CompleteResolved => ScoreSum = 0

\* two complete groups with scores that are not all zero
C23_Witness ==
    /\ pc = "scored"
    /\ Len(items) = 2
    /\ CompleteResolved
    /\ ScoreSum = 0
    /\ result.scores["D"] = 2

\* C24: for a complete, valid response set whose labels all resolve, the top
\* score is never negative and primaryType is "Balanced" exactly when all
\* four scores are 0.
C24_BalancedOnlyAtZero ==
    (pc = "scored" /\ CompleteResolved) =>
        /\ \E d \in DimSet : result.scores[d] >= 0
        /\ result.primaryType = "Balanced" <=>
              \A d \in DimSet : result.scores[d] = 0

\* two complete groups that cancel each other
C24_Witness ==
    /\ pc = "scored"
    /\ Len(items) = 2
    /\ CompleteResolved
    /\ result.primaryType = "Balanced"
    /\ \A d \in DimSet : result.scores[d] = 0

PrimaryLabels ==
    { "High " \o d : d \in DimSet }
    \cup { Join(CanonicalSeq(T), "") :
             T \in { U \in SUBSET DimSet : Cardinality(U) \in {2, 3} } }
    \cup { "Balanced" }

\* C30: for every primaryType calculateScores returns, getTypeDescription
\* returns a description object, never undefined: the entry keyed by the label
\* when there is one and the "Balanced" entry otherwise.
C30_EveryLabelDescribed ==
    pc = "described" =>
        /\ result.primaryType \in PrimaryLabels
        /\ description # Undefined
        /\ description \in { descriptions[k] : k \in DOMAIN descriptions }
        /\ description =
              IF result.primaryType \in DOMAIN descriptions
              THEN descriptions[result.primaryType]
              ELSE descriptions["Balanced"]

\* the tie label "DS" has no entry and gets the Balanced one
C30_Witness ==
    /\ pc = "described"
    /\ result.primaryType = "DS"
    /\ description.title = "Balanced Profile"

-----------------------------------------------------------------------------
(* Properties of the two pages *)

\* group g of the page has a `most` and a `least` radio checked, and they differ
GroupComplete(g) ==
    /\ g \in DOMAIN radios
    /\ radios[g].most # Unchecked
    /\ radios[g].least # Unchecked
    /\ radios[g].most # radios[g].least

SeqRange(seq) == { seq[k] : k \in 1..Len(seq) }

\* C15: when handleSubmit runs on the forced-choice page and validateResponses
\* over groups 1..15 reports a missing group, no score is computed or written
\* to the hidden fields, the loading state is not shown and no native submit
\* is scheduled or made; the validation error is shown and exactly the groups
\* of missingGroups are highlighted.  A form with a missing group is never
\* accepted.
C15_SubmitGating ==
    [][ /\ pc' = "handleSubmit:rejected" =>
              /\ \E g \in 1..TOTAL_GROUPS : ~GroupComplete(g)
              /\ SeqRange(validation'.missingGroups) =
                     { g \in 1..TOTAL_GROUPS : ~GroupComplete(g) }
              /\ result' = result
              /\ hidden' = hidden
              /\ loading' = loading
              /\ submitDisabled' = submitDisabled
              /\ timers' = timers
              /\ submitted' = submitted
              /\ validationError' = Len(validation'.missingGroups)
              /\ DOMAIN highlighted' = SeqRange(validation'.missingGroups)
        /\ pc' = "handleSubmit:accepted" =>
              \A g \in 1..TOTAL_GROUPS : GroupComplete(g)
      ]_vars

\* a rejected submit on a page whose bank is longer than TOTAL_GROUPS
C15_Witness ==
    /\ pc = "handleSubmit:rejected"
    /\ Len(items) > TOTAL_GROUPS
    /\ validationError = TOTAL_GROUPS
    /\ DOMAIN highlighted = 1..TOTAL_GROUPS
    /\ hidden = NoHidden
    /\ ~loading
    /\ timers = 0

\* what the seven hidden fields of the forced-choice form must hold for a result
ExpectedFields(results) ==
    [score_D |-> ToString(results.scores["D"]),
     score_I |-> ToString(results.scores["I"]),
     score_S |-> ToString(results.scores["S"]),
     score_C |-> ToString(results.scores["C"]),
     primary_type |-> results.primaryType,
     type_order |-> results.typeOrder,
     debug_vector |-> results.debug]

\* what the seven hidden fields of the Likert form must hold for a result
ExpectedDiscFields(scores) ==
    [total_D |-> ToString(scores.totals["D"]),
     total_I |-> ToString(scores.totals["I"]),
     total_S |-> ToString(scores.totals["S"]),
     total_C |-> ToString(scores.totals["C"]),
     primary_style |-> scores.primary,
     secondary_style |-> scores.secondary,
     style_vector |-> scores.vector]

\* C16: in both front ends the score fields are written before a submission
\* is sent, in the submit handling that sends it and from the responses that
\* handling read: a 100 ms submit timer is scheduled only by a handling that
\* has written all fields, a native submit of the forced-choice form is always
\* the firing of such a timer, and the body of a Likert POST holds the answers
\* read and the fields computed from them.
C16_FieldsBeforeSend ==
    [][ /\ timers' > timers =>
              /\ responses' = getCurrentResponses(radios, items)
              /\ hidden' = ExpectedFields(calculateScores(responses', items))
              /\ \A f \in DOMAIN hidden' : hidden'[f] # ""
        /\ (radios # <<>> /\ submitted' > submitted) =>
              /\ timers > 0
              /\ timers' = timers - 1
              /\ hidden' = hidden
              /\ \A f \in DOMAIN hidden : hidden[f] # ""
        /\ Len(requests') > Len(requests) =>
              LET sent == requests'[Len(requests')]
              IN  /\ sent.body.answers = form
                  /\ sent.body.fields = ExpectedDiscFields(discCalculateScores(form))
                  /\ \A f \in DOMAIN sent.body.fields : sent.body.fields[f] # ""
      ]_vars

\* the forced-choice form has been sent by its timer, with its fields filled
C16_Witness ==
    /\ pc = "timer:submit"
    /\ submitted = 1
    /\ hidden.primary_type # ""
    /\ hidden.type_order # ""

\* C17: after each handled radio change the submit button is enabled if and
\* only if every group 1..15 has a `most` and a `least` selection that differ.
C17_ButtonEnabling ==
    pc = "handleRadioChange" =>
        (~submitDisabled <=> \A g \in 1..TOTAL_GROUPS : GroupComplete(g))

\* a change completed the form and the button got enabled
C17_Witness ==
    /\ pc = "handleRadioChange"
    /\ ~submitDisabled
    /\ \A g \in 1..TOTAL_GROUPS : GroupComplete(g)

\* every question of the Likert page has a checked radio
PageAnswered == \A q \in 1..TotalQuestions : form[q] # Unchecked

\* C18: a submit of the Likert form with an unanswered question shows the
\* alert and does nothing else (no scores, no hidden field written, no POST,
\* nothing rendered); no POST is started from an incomplete form; validateForm
\* is true if and only if all 24 questions are answered.
C18_LikertGating ==
    [][ /\ form # NoForm => (validateForm(form) <=> PageAnswered)
        /\ pc' = "alert" =>
              /\ ~PageAnswered
              /\ likert' = likert
              /\ hidden' = hidden
              /\ requests' = requests
              /\ rendered' = rendered
              /\ submitted' = submitted
              /\ form' = form
        /\ Len(requests') > Len(requests) => PageAnswered
      ]_vars

\* the alert was shown for a form with question 1 unanswered
C18_Witness ==
    /\ pc = "alert"
    /\ form # NoForm
    /\ form[1] = Unchecked
    /\ requests = <<>>
    /\ hidden = NoDiscHidden

\* C19: every valid submit of the Likert form eventually ends in one of its
\* two outcomes: its results rendered, or the native form.submit() called.
C19_EveryRequestEnds ==
    \A k \in 1..MaxPending :
        (Len(requests) >= k) ~>
            (Len(requests) >= k /\ requests[k].status \in {"rendered", "native"})

\* C20: while one POST of the Likert form is in flight no further POST is
\* started, so repeated submits lead to at most one POST.
C20_Debounced ==
    /\ Len(requests) <= 1
    /\ Cardinality({ k \in 1..Len(requests) : requests[k].status = "pending" }) <= 1

\* the last handler of the forced-choice page called calculateScores on
\* `responses`: an accepted submit, or a radio change that left the form valid
JustScored ==
    \/ pc = "handleSubmit:accepted"
    \/ pc = "handleRadioChange" /\ validation.isValid

\* group g of the bank adds to the scores: its `most` or its `least` is the
\* label of one of its items
Contributes(g) ==
    /\ items[g].id \in DOMAIN responses
    /\ \E i \in 1..Len(items[g].items) :
          \/ items[g].items[i].label = responses[items[g].id].most
          \/ items[g].items[i].label = responses[items[g].id].least

\* C25: whenever handleSubmit or the preview calls calculateScores, every
\* group of the question bank that contributes to the scores lies in
\* 1..TOTAL_GROUPS and has a `most` and a `least` that differ.
C25_ValidationCoversScored ==
    JustScored =>
        \A g \in 1..Len(items) :
            Contributes(g) =>
                /\ items[g].id \in 1..TOTAL_GROUPS
                /\ GroupComplete(items[g].id)

\* C27: when the delayed e.target.submit() fires, the hidden score fields
\* equal calculateScores of the radio selections then in the form, and those
\* selections pass validation.
C27_SubmittedScoresMatch ==
    [][ pc' = "timer:submit" =>
            /\ \A g \in 1..TOTAL_GROUPS : GroupComplete(g)
            /\ hidden = ExpectedFields(
                            calculateScores(getCurrentResponses(radios, items), items))
      ]_vars

\* C28: while a delayed native submit is pending the submit button stays
\* disabled, and no second one is scheduled.
C28_NoSecondSubmission ==
    /\ timers > 0 => submitDisabled
    /\ timers + submitted <= 1

\* C29: whenever the results preview is visible it shows the scores, primary
\* type and type order of the current responses, which are valid.
C29_PreviewNeverStale ==
    DOMAIN summary # {} =>
        /\ \A g \in 1..TOTAL_GROUPS : GroupComplete(g)
        /\ summary = showResultsSummary(
                         calculateScores(getCurrentResponses(radios, items), items))

-----------------------------------------------------------------------------
(* Properties of the webhook relay *)

\* the invocation has ended
Ended == pc = "returned"

\* the body of the event is JSON text
BodyIsJson == JSONParse(event.body).ok

\* the webhook answered with a status of 200..299
WebhookOk == fetched.kind = "response" /\ fetched.status >= 200 /\ fetched.status <= 299

\* C21: a request whose httpMethod is not POST is answered with status 405;
\* its body is not parsed and nothing is sent to the external webhook,
\* whether or not WEBHOOK_URL is configured.
C21_MethodCheck ==
    (event.httpMethod # "POST" /\ pc # "invoked") =>
        /\ Ended
        /\ reply.kind = "returned"
        /\ reply.statusCode = 405
        /\ parsed = 0
        /\ outbox = <<>>
        /\ fetched.kind = "none"

\* a GET with a JSON body was answered while WEBHOOK_URL is configured
C21_Witness ==
    /\ Ended
    /\ event.httpMethod = "GET"
    /\ env \notin {Unset, ""}
    /\ BodyIsJson
    /\ reply.kind = "returned"
    /\ reply.statusCode = 405

\* C22: a POST never makes the handler throw and is answered with 200 or 500;
\* with WEBHOOK_URL unset it is answered with 200 and nothing is forwarded;
\* with WEBHOOK_URL set at most one request is forwarded, the answer is 200
\* with the submissionId exactly when the body parsed as JSON and the webhook
\* responded ok, and it is 500 when the body is not JSON (nothing is
\* forwarded then), the webhook responded with a non-ok status, or the
\* request failed.
C22_PostOutcomes ==
    event.httpMethod = "POST" =>
        /\ reply.kind # "threw"
        /\ Len(outbox) <= 1
        /\ Ended =>
              /\ reply.kind = "returned"
              /\ reply.statusCode \in {200, 500}
              /\ env \in {Unset, ""} =>
                    reply.statusCode = 200 /\ outbox = <<>>
              /\ env \notin {Unset, ""} =>
                    /\ reply.statusCode = 200 <=> (BodyIsJson /\ WebhookOk)
                    /\ reply.statusCode = 200 =>
                          reply.body =
                              "{\"message\":\"Submission forwarded successfully\",\"submissionId\":"
                                  \o Stringify(outbox[1].payload.props.submissionId) \o "}"
                    /\ ~BodyIsJson => reply.statusCode = 500 /\ outbox = <<>>
                    /\ (fetched.kind = "response" /\ ~WebhookOk) => reply.statusCode = 500
                    /\ fetched.kind = "rejected" => reply.statusCode = 500

\* a POST with a numeric id was forwarded once and the webhook answered 204
C22_Witness ==
    /\ Ended
    /\ event.httpMethod = "POST"
    /\ event.body = "{\"id\":7}"
    /\ Len(outbox) = 1
    /\ fetched.kind = "response"
    /\ fetched.status = 204
    /\ reply.kind = "returned"
    /\ reply.statusCode = 200
    /\ reply.body = "{\"message\":\"Submission forwarded successfully\",\"submissionId\":7}"

====
